---- MODULE Spec2Model ----
(***************************************************************************)
(* State-machine model of the survey API in src/app.py: the Survey,        *)
(* Question and Response tables and the JSON routes that read and write    *)
(* them.  Every route is one action; the request (caller identity taken    *)
(* from the session, path id, JSON body) is the action's input and the     *)
(* HTTP response is recorded in last with the route, the caller and the    *)
(* path id it answers.  The created_at / updated_at timestamps are left    *)
(* out: no route decides anything on them.                                 *)
(***************************************************************************)
EXTENDS Integers, Sequences, FiniteSets, TLC

VARIABLES surveys, questions, responses, last, commits, pending

vars == <<surveys, questions, responses, last, commits, pending>>

(***************************************************************************)
(* Bounds of the model.                                                    *)
(***************************************************************************)
MaxSurveys == 2
MaxQuestions == 2
MaxResponses == 2
MaxCommits == 3
MaxLongCommits == 5
MaxConcCommits == 4
MaxPending == 2

(***************************************************************************)
(* Identities.  A request carries a session; session.get('user_id') is a   *)
(* user id or None.                                                        *)
(***************************************************************************)
UserIds == {1, 2}
None == 0
Callers == UserIds \cup {None}

(***************************************************************************)
(* Request bodies are JSON objects: functions from the supplied keys to    *)
(* their values.  data.get(k, d) is the value when k is supplied, else d.  *)
(***************************************************************************)
NoData == [k \in {} |-> 0]

get(data, k, default) == IF k \in DOMAIN data THEN data[k] ELSE default

(***************************************************************************)
(* JSON values: null, strings, lists of values and objects (a Python dict  *)
(* in insertion order, as a sequence of key/value pairs).                  *)
(***************************************************************************)
JNull == [t |-> "null"]
JStr(s) == [t |-> "str", s |-> s]
JList(l) == [t |-> "list", l |-> l]
JDict(d) == [t |-> "dict", d |-> d]

Strings == {"Yes", "No", "1", "2"}

(***************************************************************************)
(* Encoded JSON text is a sequence of lexical tokens.  A string literal is *)
(* the string between double quotes.                                       *)
(***************************************************************************)
Quote(s) == "\"" \o s \o "\""

Unquote(tok) == CHOOSE s \in Strings : Quote(s) = tok

RECURSIVE json_dumps(_)
RECURSIVE dumps_items(_)
RECURSIVE dumps_pairs(_)

dumps_items(l) ==
    IF l = <<>> THEN <<>>
    ELSE IF Len(l) = 1 THEN json_dumps(l[1])
    ELSE json_dumps(l[1]) \o <<",">> \o dumps_items(Tail(l))

dumps_pairs_first_only(d) ==
    IF d = <<>> THEN <<>>
    ELSE <<Quote(d[1].k), ":">> \o json_dumps(d[1].v)

dumps_pairs(d) ==
    IF d = <<>> THEN <<>>
    ELSE IF Len(d) = 1 THEN <<Quote(d[1].k), ":">> \o json_dumps(d[1].v)
    ELSE <<Quote(d[1].k), ":">> \o json_dumps(d[1].v) \o <<",">> \o dumps_pairs(Tail(d))

json_dumps(v) ==
    CASE v.t = "null" -> <<"null">>
      [] v.t = "str" -> <<Quote(v.s)>>
      [] v.t = "list" -> <<"[">> \o dumps_items(v.l) \o <<"]">>
      [] v.t = "dict" -> <<"{">> \o dumps_pairs(v.d) \o <<"}">>

(***************************************************************************)
(* json.loads: a recursive-descent parser over the tokens.  parse_value    *)
(* returns the value read and the tokens that remain.                      *)
(***************************************************************************)
RECURSIVE parse_value(_)
RECURSIVE parse_items(_, _)
RECURSIVE parse_pairs(_, _)

parse_items(toks, acc) ==
    LET r == parse_value(toks) IN
    IF Head(r.rest) = ","
    THEN parse_items(Tail(r.rest), Append(acc, r.val))
    ELSE [val |-> JList(Append(acc, r.val)), rest |-> Tail(r.rest)]

parse_pairs(toks, acc) ==
    LET key == Unquote(toks[1])
        r == parse_value(Tail(Tail(toks)))
        pair == [k |-> key, v |-> r.val]
        i == CHOOSE j \in 0..Len(acc) :
                 /\ j > 0 => acc[j].k = key
                 /\ \A m \in (j + 1)..Len(acc) : acc[m].k # key
        merged == IF i = 0 THEN Append(acc, pair) ELSE [acc EXCEPT ![i] = pair]
    IN  IF Head(r.rest) = ","
        THEN parse_pairs(Tail(r.rest), merged)
        ELSE [val |-> JDict(merged), rest |-> Tail(r.rest)]

parse_value(toks) ==
    LET tok == Head(toks) IN
    CASE tok = "null" -> [val |-> JNull, rest |-> Tail(toks)]
      [] tok = "[" ->
            IF toks[2] = "]" THEN [val |-> JList(<<>>), rest |-> Tail(Tail(toks))]
            ELSE parse_items(Tail(toks), <<>>)
      [] tok = "{" ->
            IF toks[2] = "}" THEN [val |-> JDict(<<>>), rest |-> Tail(Tail(toks))]
            ELSE parse_pairs(Tail(toks), <<>>)
      [] OTHER -> [val |-> JStr(Unquote(tok)), rest |-> Tail(toks)]

json_loads(text) == parse_value(text).val

(***************************************************************************)
(* Tables.  A table is a function from the ids of its rows to the rows.    *)
(* The primary keys are SQLite INTEGER PRIMARY KEY columns: a new row gets *)
(* the largest id in the table plus one.                                   *)
(***************************************************************************)
MaxOf(S) == CHOOSE m \in S : \A x \in S : x <= m

NextId(table) == IF DOMAIN table = {} THEN 1 ELSE MaxOf(DOMAIN table) + 1

Insert(table, id, row) == [i \in DOMAIN table \cup {id} |-> IF i = id THEN row ELSE table[i]]

Delete(table, ids) == [i \in DOMAIN table \ ids |-> table[i]]

NoRows == [i \in {} |-> 0]

(* The ids of a set of rows in the order a SELECT without ORDER BY returns  *)
(* them.  No query of the application orders its rows and no table has an   *)
(* index besides the primary key, so SQLite scans in rowid order.           *)
RECURSIVE all(_)
all(ids) ==
    IF ids = {} THEN <<>>
    ELSE LET m == MaxOf(ids) IN Append(all(ids \ {m}), m)

(***************************************************************************)
(* Input domains of the requests.                                          *)
(***************************************************************************)
Statuses == {"draft", "active", "closed", "archived"}

SuppliedStatuses == Statuses \cup {"bogus"}

Payloads ==
    { JDict(<<[k |-> "1", v |-> JStr("Yes")]>>),
      JDict(<<[k |-> "2", v |-> JList(<<JStr("Yes"), JStr("No")>>)],
              [k |-> "1", v |-> JStr("No")]>>) }

(* The ids a request names in its path: those of the rows of the table and *)
(* one id no row has.                                                      *)
PathIds(table) == DOMAIN table \cup {NextId(table)}

Rec(k, v) == [x \in {k} |-> v]

CreateSurveyData ==
    { NoData, Rec("title", "Q1 Feedback") }

UpdateSurveyData ==
    { Rec("title", "Q2 Feedback") @@ Rec("user_id", 2) }
    \cup { Rec("status", s) : s \in SuppliedStatuses }

CreateQuestionData ==
    { Rec("type", "text") @@ Rec("text", "Why?"),
      Rec("type", "single_choice") @@ Rec("text", "Satisfied?"),
      Rec("type", "dropdown") @@ Rec("text", "Satisfied?") @@ Rec("options", JList(<<>>)),
      Rec("type", "single_choice") @@ Rec("text", "Satisfied?")
          @@ Rec("options", JList(<<JStr("Yes"), JStr("No")>>)) @@ Rec("order", 1) }

UpdateQuestionData ==
    { Rec("order", 1),
      Rec("type", "multi_choice") @@ Rec("text", "Happy?")
          @@ Rec("options", JList(<<JStr("No"), JStr("Yes")>>)),
      Rec("description", "pick one") @@ Rec("required", TRUE) @@ Rec("options", JList(<<>>)) }

(***************************************************************************)
(* The HTTP response of a route, with the request it answers.              *)
(***************************************************************************)
Reply(op, caller, id, http, body) ==
    [op |-> op, caller |-> caller, id |-> id, http |-> http, body |-> body]

Error(msg) == [error |-> msg]

NoBody == [error |-> ""]

Init ==
    /\ surveys = NoRows
    /\ questions = NoRows
    /\ responses = NoRows
    /\ last = Reply("none", None, 0, 0, NoBody)
    /\ commits = 0
    /\ pending = {}

(***************************************************************************)
(* The guards of the routes.                                               *)
(***************************************************************************)
(* 'user_id' not in session *)
not_logged_in_unchecked(caller) == FALSE

not_logged_in(caller) == caller = None

(* survey.user_id != session['user_id'] *)
not_owner_any_user(survey, caller) == caller \notin UserIds

not_owner(survey, caller) == survey.user_id # caller

(* survey.status != 'active' *)
not_active_closed_only(survey) == survey.status = "closed"

not_active(survey) == survey.status # "active"

(* session.get('user_id') *)
session_get_user_id_dropped(caller) == None

session_get_user_id(caller) == caller

(* data.get('status', survey.status) *)
merged_status_archived_final(survey, data) ==
    IF survey.status = "archived" THEN survey.status ELSE get(data, "status", survey.status)

merged_status(survey, data) == get(data, "status", survey.status)

(***************************************************************************)
(* Relationships.                                                          *)
(***************************************************************************)
survey_questions(qs, survey_id) == all({q \in DOMAIN qs : qs[q].survey_id = survey_id})

survey_responses(rs, survey_id) == all({r \in DOMAIN rs : rs[r].survey_id = survey_id})

(***************************************************************************)
(* GET /api/surveys                                                        *)
(***************************************************************************)
get_surveys_unfiltered(caller) ==
    /\ UNCHANGED <<surveys, questions, responses>>
    /\ IF not_logged_in(caller)
       THEN last' = Reply("get_surveys", caller, 0, 401, Error("Unauthorized"))
       ELSE LET found == all(DOMAIN surveys)
                result == [i \in 1..Len(found) |->
                              [id |-> found[i],
                               title |-> surveys[found[i]].title,
                               description |-> surveys[found[i]].description,
                               status |-> surveys[found[i]].status,
                               responses_count |-> Len(survey_responses(responses, found[i]))]]
            IN last' = Reply("get_surveys", caller, 0, 200, result)

get_surveys(caller) ==
    /\ UNCHANGED <<surveys, questions, responses>>
    /\ IF not_logged_in(caller)
       THEN last' = Reply("get_surveys", caller, 0, 401, Error("Unauthorized"))
       ELSE LET found == all({s \in DOMAIN surveys : surveys[s].user_id = caller})
                result == [i \in 1..Len(found) |->
                              [id |-> found[i],
                               title |-> surveys[found[i]].title,
                               description |-> surveys[found[i]].description,
                               status |-> surveys[found[i]].status,
                               responses_count |-> Len(survey_responses(responses, found[i]))]]
            IN last' = Reply("get_surveys", caller, 0, 200, result)

(***************************************************************************)
(* POST /api/surveys                                                       *)
(***************************************************************************)
create_survey_active(caller, data) ==
    IF not_logged_in(caller)
    THEN /\ last' = Reply("create_survey", caller, 0, 401, Error("Unauthorized"))
         /\ UNCHANGED <<surveys, questions, responses>>
    ELSE IF "title" \notin DOMAIN data
    THEN /\ last' = Reply("create_survey", caller, 0, 500, Error("KeyError"))
         /\ UNCHANGED <<surveys, questions, responses>>
    ELSE LET id == NextId(surveys)
             new_survey == [title |-> data["title"],
                            description |-> get(data, "description", ""),
                            status |-> "active",
                            user_id |-> caller]
         IN /\ id <= MaxSurveys
            /\ surveys' = Insert(surveys, id, new_survey)
            /\ last' = Reply("create_survey", caller, 0, 201,
                             [id |-> id, title |-> new_survey.title,
                              description |-> new_survey.description,
                              status |-> new_survey.status])
            /\ UNCHANGED <<questions, responses>>

create_survey(caller, data) ==
    IF not_logged_in(caller)
    THEN /\ last' = Reply("create_survey", caller, 0, 401, Error("Unauthorized"))
         /\ UNCHANGED <<surveys, questions, responses>>
    ELSE IF "title" \notin DOMAIN data
    THEN /\ last' = Reply("create_survey", caller, 0, 500, Error("KeyError"))
         /\ UNCHANGED <<surveys, questions, responses>>
    ELSE LET id == NextId(surveys)
             new_survey == [title |-> data["title"],
                            description |-> get(data, "description", ""),
                            status |-> "draft",
                            user_id |-> caller]
         IN /\ id <= MaxSurveys
            /\ surveys' = Insert(surveys, id, new_survey)
            /\ last' = Reply("create_survey", caller, 0, 201,
                             [id |-> id, title |-> new_survey.title,
                              description |-> new_survey.description,
                              status |-> new_survey.status])
            /\ UNCHANGED <<questions, responses>>

(***************************************************************************)
(* GET /api/surveys/<survey_id>                                            *)
(***************************************************************************)
q_data(qs, id) ==
    LET question == qs[id]
        base == [id |-> id, type |-> question.type, text |-> question.text,
                 description |-> question.description,
                 required |-> question.required, order |-> question.order]
    IN IF question.options # <<>>
       THEN base @@ [options |-> json_loads(question.options)]
       ELSE base

get_survey(caller, survey_id) ==
    /\ UNCHANGED <<surveys, questions, responses>>
    /\ IF not_logged_in(caller)
       THEN last' = Reply("get_survey", caller, survey_id, 401, Error("Unauthorized"))
       ELSE IF survey_id \notin DOMAIN surveys
       THEN last' = Reply("get_survey", caller, survey_id, 404, Error("Not Found"))
       ELSE IF not_owner(surveys[survey_id], caller)
       THEN last' = Reply("get_survey", caller, survey_id, 403, Error("Forbidden"))
       ELSE LET survey == surveys[survey_id]
                ids == survey_questions(questions, survey_id)
            IN last' = Reply("get_survey", caller, survey_id, 200,
                             [id |-> survey_id, title |-> survey.title,
                              description |-> survey.description,
                              status |-> survey.status,
                              questions |-> [i \in 1..Len(ids) |-> q_data(questions, ids[i])]])

(***************************************************************************)
(* PUT /api/surveys/<survey_id>                                            *)
(***************************************************************************)
update_survey_mass_assign(caller, survey_id, data) ==
    IF not_logged_in(caller)
    THEN /\ last' = Reply("update_survey", caller, survey_id, 401, Error("Unauthorized"))
         /\ UNCHANGED <<surveys, questions, responses>>
    ELSE IF survey_id \notin DOMAIN surveys
    THEN /\ last' = Reply("update_survey", caller, survey_id, 404, Error("Not Found"))
         /\ UNCHANGED <<surveys, questions, responses>>
    ELSE IF not_owner(surveys[survey_id], caller)
    THEN /\ last' = Reply("update_survey", caller, survey_id, 403, Error("Forbidden"))
         /\ UNCHANGED <<surveys, questions, responses>>
    ELSE LET survey == surveys[survey_id]
             updated == [survey EXCEPT
                            !.title = get(data, "title", survey.title),
                            !.description = get(data, "description", survey.description),
                            !.status = merged_status(survey, data),
                            !.user_id = get(data, "user_id", survey.user_id)]
         IN /\ surveys' = [surveys EXCEPT ![survey_id] = updated]
            /\ last' = Reply("update_survey", caller, survey_id, 200,
                             [id |-> survey_id, title |-> updated.title,
                              description |-> updated.description,
                              status |-> updated.status])
            /\ UNCHANGED <<questions, responses>>

update_survey(caller, survey_id, data) ==
    IF not_logged_in(caller)
    THEN /\ last' = Reply("update_survey", caller, survey_id, 401, Error("Unauthorized"))
         /\ UNCHANGED <<surveys, questions, responses>>
    ELSE IF survey_id \notin DOMAIN surveys
    THEN /\ last' = Reply("update_survey", caller, survey_id, 404, Error("Not Found"))
         /\ UNCHANGED <<surveys, questions, responses>>
    ELSE IF not_owner(surveys[survey_id], caller)
    THEN /\ last' = Reply("update_survey", caller, survey_id, 403, Error("Forbidden"))
         /\ UNCHANGED <<surveys, questions, responses>>
    ELSE LET survey == surveys[survey_id]
             updated == [survey EXCEPT
                            !.title = get(data, "title", survey.title),
                            !.description = get(data, "description", survey.description),
                            !.status = merged_status(survey, data)]
         IN /\ surveys' = [surveys EXCEPT ![survey_id] = updated]
            /\ last' = Reply("update_survey", caller, survey_id, 200,
                             [id |-> survey_id, title |-> updated.title,
                              description |-> updated.description,
                              status |-> updated.status])
            /\ UNCHANGED <<questions, responses>>

(***************************************************************************)
(* DELETE /api/surveys/<survey_id>                                         *)
(* Survey.questions cascades "all, delete-orphan": the questions are       *)
(* deleted with the survey.  Survey.responses has no delete cascade: the   *)
(* unit of work sets survey_id of each response of the survey to NULL, the *)
(* column is NOT NULL, the flush raises IntegrityError and the request     *)
(* ends in a 500 with the transaction rolled back.                         *)
(***************************************************************************)
delete_survey(caller, survey_id) ==
    IF not_logged_in(caller)
    THEN /\ last' = Reply("delete_survey", caller, survey_id, 401, Error("Unauthorized"))
         /\ UNCHANGED <<surveys, questions, responses>>
    ELSE IF survey_id \notin DOMAIN surveys
    THEN /\ last' = Reply("delete_survey", caller, survey_id, 404, Error("Not Found"))
         /\ UNCHANGED <<surveys, questions, responses>>
    ELSE IF not_owner(surveys[survey_id], caller)
    THEN /\ last' = Reply("delete_survey", caller, survey_id, 403, Error("Forbidden"))
         /\ UNCHANGED <<surveys, questions, responses>>
    ELSE IF survey_responses(responses, survey_id) # <<>>
    THEN /\ last' = Reply("delete_survey", caller, survey_id, 500, Error("IntegrityError"))
         /\ UNCHANGED <<surveys, questions, responses>>
    ELSE /\ surveys' = Delete(surveys, {survey_id})
         /\ questions' = Delete(questions, {q \in DOMAIN questions : questions[q].survey_id = survey_id})
         /\ last' = Reply("delete_survey", caller, survey_id, 204, NoBody)
         /\ UNCHANGED responses

(***************************************************************************)
(* POST /api/surveys/<survey_id>/questions                                 *)
(***************************************************************************)
question_body(id, question) ==
    [id |-> id, type |-> question.type, text |-> question.text,
     description |-> question.description, required |-> question.required,
     options |-> IF question.options # <<>> THEN json_loads(question.options) ELSE JList(<<>>),
     order |-> question.order]

create_question(caller, survey_id, data) ==
    IF not_logged_in(caller)
    THEN /\ last' = Reply("create_question", caller, survey_id, 401, Error("Unauthorized"))
         /\ UNCHANGED <<surveys, questions, responses>>
    ELSE IF survey_id \notin DOMAIN surveys
    THEN /\ last' = Reply("create_question", caller, survey_id, 404, Error("Not Found"))
         /\ UNCHANGED <<surveys, questions, responses>>
    ELSE IF not_owner(surveys[survey_id], caller)
    THEN /\ last' = Reply("create_question", caller, survey_id, 403, Error("Forbidden"))
         /\ UNCHANGED <<surveys, questions, responses>>
    ELSE IF "type" \notin DOMAIN data \/ "text" \notin DOMAIN data
    THEN /\ last' = Reply("create_question", caller, survey_id, 500, Error("KeyError"))
         /\ UNCHANGED <<surveys, questions, responses>>
    ELSE LET id == NextId(questions)
             new_question == [survey_id |-> survey_id,
                              type |-> data["type"],
                              text |-> data["text"],
                              description |-> get(data, "description", ""),
                              required |-> get(data, "required", FALSE),
                              options |-> json_dumps(get(data, "options", JList(<<>>))),
                              order |-> get(data, "order", 0)]
         IN /\ id <= MaxQuestions
            /\ questions' = Insert(questions, id, new_question)
            /\ last' = Reply("create_question", caller, survey_id, 201,
                             question_body(id, new_question))
            /\ UNCHANGED <<surveys, responses>>

(***************************************************************************)
(* PUT /api/questions/<question_id>                                        *)
(***************************************************************************)
update_question_clears_answers(caller, question_id, data) ==
    IF not_logged_in(caller)
    THEN /\ last' = Reply("update_question", caller, question_id, 401, Error("Unauthorized"))
         /\ UNCHANGED <<surveys, questions, responses>>
    ELSE IF question_id \notin DOMAIN questions
    THEN /\ last' = Reply("update_question", caller, question_id, 404, Error("Not Found"))
         /\ UNCHANGED <<surveys, questions, responses>>
    ELSE IF not_owner(surveys[questions[question_id].survey_id], caller)
    THEN /\ last' = Reply("update_question", caller, question_id, 403, Error("Forbidden"))
         /\ UNCHANGED <<surveys, questions, responses>>
    ELSE LET question == questions[question_id]
             updated == [question EXCEPT
                            !.type = get(data, "type", question.type),
                            !.text = get(data, "text", question.text),
                            !.description = get(data, "description", question.description),
                            !.required = get(data, "required", question.required),
                            !.options = json_dumps(get(data, "options",
                                            IF question.options # <<>>
                                            THEN json_loads(question.options)
                                            ELSE JList(<<>>))),
                            !.order = get(data, "order", question.order)]
         IN /\ questions' = [questions EXCEPT ![question_id] = updated]
            /\ responses' = [r \in DOMAIN responses |->
                                IF responses[r].survey_id = question.survey_id
                                THEN [responses[r] EXCEPT !.response_data = json_dumps(JDict(<<>>))]
                                ELSE responses[r]]
            /\ last' = Reply("update_question", caller, question_id, 200,
                             question_body(question_id, updated))
            /\ UNCHANGED surveys

update_question(caller, question_id, data) ==
    IF not_logged_in(caller)
    THEN /\ last' = Reply("update_question", caller, question_id, 401, Error("Unauthorized"))
         /\ UNCHANGED <<surveys, questions, responses>>
    ELSE IF question_id \notin DOMAIN questions
    THEN /\ last' = Reply("update_question", caller, question_id, 404, Error("Not Found"))
         /\ UNCHANGED <<surveys, questions, responses>>
    ELSE IF not_owner(surveys[questions[question_id].survey_id], caller)
    THEN /\ last' = Reply("update_question", caller, question_id, 403, Error("Forbidden"))
         /\ UNCHANGED <<surveys, questions, responses>>
    ELSE LET question == questions[question_id]
             updated == [question EXCEPT
                            !.type = get(data, "type", question.type),
                            !.text = get(data, "text", question.text),
                            !.description = get(data, "description", question.description),
                            !.required = get(data, "required", question.required),
                            !.options = json_dumps(get(data, "options",
                                            IF question.options # <<>>
                                            THEN json_loads(question.options)
                                            ELSE JList(<<>>))),
                            !.order = get(data, "order", question.order)]
         IN /\ questions' = [questions EXCEPT ![question_id] = updated]
            /\ last' = Reply("update_question", caller, question_id, 200,
                             question_body(question_id, updated))
            /\ UNCHANGED <<surveys, responses>>

(***************************************************************************)
(* DELETE /api/questions/<question_id>                                     *)
(***************************************************************************)
delete_question_unguarded(caller, question_id) ==
    IF not_logged_in(caller)
    THEN /\ last' = Reply("delete_question", caller, question_id, 401, Error("Unauthorized"))
         /\ UNCHANGED <<surveys, questions, responses>>
    ELSE IF question_id \notin DOMAIN questions
    THEN /\ last' = Reply("delete_question", caller, question_id, 404, Error("Not Found"))
         /\ UNCHANGED <<surveys, questions, responses>>
    ELSE /\ questions' = Delete(questions, {question_id})
         /\ last' = Reply("delete_question", caller, question_id, 204, NoBody)
         /\ UNCHANGED <<surveys, responses>>

delete_question(caller, question_id) ==
    IF not_logged_in(caller)
    THEN /\ last' = Reply("delete_question", caller, question_id, 401, Error("Unauthorized"))
         /\ UNCHANGED <<surveys, questions, responses>>
    ELSE IF question_id \notin DOMAIN questions
    THEN /\ last' = Reply("delete_question", caller, question_id, 404, Error("Not Found"))
         /\ UNCHANGED <<surveys, questions, responses>>
    ELSE IF not_owner(surveys[questions[question_id].survey_id], caller)
    THEN /\ last' = Reply("delete_question", caller, question_id, 403, Error("Forbidden"))
         /\ UNCHANGED <<surveys, questions, responses>>
    ELSE /\ questions' = Delete(questions, {question_id})
         /\ last' = Reply("delete_question", caller, question_id, 204, NoBody)
         /\ UNCHANGED <<surveys, responses>>

(***************************************************************************)
(* POST /api/surveys/<survey_id>/responses                                 *)
(***************************************************************************)
submit_response_write_first(caller, survey_id, data) ==
    IF survey_id \notin DOMAIN surveys
    THEN /\ last' = Reply("submit_response", caller, survey_id, 404, Error("Not Found"))
         /\ UNCHANGED <<surveys, questions, responses>>
    ELSE LET id == NextId(responses)
             new_response == [survey_id |-> survey_id,
                              user_id |-> session_get_user_id(caller),
                              response_data |-> json_dumps(data)]
         IN /\ id <= MaxResponses
            /\ responses' = Insert(responses, id, new_response)
            /\ last' = IF not_active(surveys[survey_id])
                       THEN Reply("submit_response", caller, survey_id, 400,
                                  Error("Survey is not active"))
                       ELSE Reply("submit_response", caller, survey_id, 201, [id |-> id])
            /\ UNCHANGED <<surveys, questions>>

submit_response(caller, survey_id, data) ==
    IF survey_id \notin DOMAIN surveys
    THEN /\ last' = Reply("submit_response", caller, survey_id, 404, Error("Not Found"))
         /\ UNCHANGED <<surveys, questions, responses>>
    ELSE IF not_active(surveys[survey_id])
    THEN /\ last' = Reply("submit_response", caller, survey_id, 400, Error("Survey is not active"))
         /\ UNCHANGED <<surveys, questions, responses>>
    ELSE LET id == NextId(responses)
             new_response == [survey_id |-> survey_id,
                              user_id |-> session_get_user_id(caller),
                              response_data |-> json_dumps(data)]
         IN /\ id <= MaxResponses
            /\ responses' = Insert(responses, id, new_response)
            /\ last' = Reply("submit_response", caller, survey_id, 201, [id |-> id])
            /\ UNCHANGED <<surveys, questions>>

(***************************************************************************)
(* The server handles one request at a time.  commits counts the requests  *)
(* that reached db.session.commit(); the model stops at MaxCommits.        *)
(***************************************************************************)
Committed == last'.http \in {200, 201, 204} /\ last'.op \notin {"get_surveys", "get_survey"}

Commit ==
    /\ commits' = IF Committed THEN commits + 1 ELSE commits
    /\ commits' <= MaxCommits
    /\ UNCHANGED pending

Next ==
    \/ \E caller \in Callers : get_surveys(caller) /\ Commit
    \/ \E caller \in Callers, data \in CreateSurveyData : create_survey(caller, data) /\ Commit
    \/ \E caller \in Callers, survey_id \in PathIds(surveys) : get_survey(caller, survey_id) /\ Commit
    \/ \E caller \in Callers, survey_id \in PathIds(surveys), data \in UpdateSurveyData :
          update_survey(caller, survey_id, data) /\ Commit
    \/ \E caller \in Callers, survey_id \in PathIds(surveys) : delete_survey(caller, survey_id) /\ Commit
    \/ \E caller \in Callers, survey_id \in PathIds(surveys), data \in CreateQuestionData :
          create_question(caller, survey_id, data) /\ Commit
    \/ \E caller \in Callers, question_id \in PathIds(questions), data \in UpdateQuestionData :
          update_question(caller, question_id, data) /\ Commit
    \/ \E caller \in Callers, question_id \in PathIds(questions) : delete_question(caller, question_id) /\ Commit
    \/ \E caller \in Callers, survey_id \in PathIds(surveys), data \in Payloads :
          submit_response(caller, survey_id, data) /\ Commit

Spec == Init /\ [][Next]_vars

(***************************************************************************)
(* Longer runs of the same routes, one request at a time, over fewer       *)
(* inputs: the owner, an anonymous visitor, and one payload per route.     *)
(***************************************************************************)
LongCallers == {1, None}

LongUpdateSurveyData ==
    { Rec("status", "active"), Rec("status", "closed"),
      Rec("title", "Q2 Feedback") @@ Rec("user_id", 2) }

LongCreateQuestionData ==
    { Rec("type", "single_choice") @@ Rec("text", "Satisfied?")
         @@ Rec("options", JList(<<JStr("Yes"), JStr("No")>>)) @@ Rec("order", 1) }

LongUpdateQuestionData ==
    { Rec("type", "multi_choice") @@ Rec("text", "Happy?")
         @@ Rec("options", JList(<<JStr("No"), JStr("Yes")>>)) }

LongPayloads == { JDict(<<[k |-> "1", v |-> JStr("Yes")]>>) }

CommitLong ==
    /\ commits' = IF Committed THEN commits + 1 ELSE commits
    /\ commits' <= MaxLongCommits
    /\ UNCHANGED pending

NextLong ==
    \/ \E caller \in LongCallers : get_surveys(caller) /\ CommitLong
    \/ \E caller \in LongCallers, data \in CreateSurveyData : create_survey(caller, data) /\ CommitLong
    \/ \E caller \in LongCallers, survey_id \in PathIds(surveys) :
          get_survey(caller, survey_id) /\ CommitLong
    \/ \E caller \in LongCallers, survey_id \in PathIds(surveys), data \in LongUpdateSurveyData :
          update_survey(caller, survey_id, data) /\ CommitLong
    \/ \E caller \in LongCallers, survey_id \in PathIds(surveys) :
          delete_survey(caller, survey_id) /\ CommitLong
    \/ \E caller \in LongCallers, survey_id \in PathIds(surveys), data \in LongCreateQuestionData :
          create_question(caller, survey_id, data) /\ CommitLong
    \/ \E caller \in LongCallers, question_id \in PathIds(questions), data \in LongUpdateQuestionData :
          update_question(caller, question_id, data) /\ CommitLong
    \/ \E caller \in LongCallers, question_id \in PathIds(questions) :
          delete_question(caller, question_id) /\ CommitLong
    \/ \E caller \in LongCallers, survey_id \in PathIds(surveys), data \in LongPayloads :
          submit_response(caller, survey_id, data) /\ CommitLong

SpecLong == Init /\ [][NextLong]_vars

(***************************************************************************)
(* Requests in flight.  app.run serves each request in a thread of its     *)
(* own, with its own session and connection.  A handler reads its survey   *)
(* with a SELECT and checks it; the INSERT and the COMMIT come later, at   *)
(* db.session.commit(), and SQLite checks no foreign key there (the pragma *)
(* is never turned on).  Between the two halves other requests commit.     *)
(* pending holds the requests that have passed their reads and guards and  *)
(* have not committed yet.  create_survey, update_survey and delete_survey *)
(* take their reads and their commit in one step.                          *)
(***************************************************************************)
Request(op, caller, id, fields, answers) ==
    [op |-> op, caller |-> caller, id |-> id, fields |-> fields, answers |-> answers]

ConcCallers == {1, None}

ConcUpdateSurveyData == { Rec("status", "active"), Rec("status", "closed") }

ConcCreateQuestionData == { Rec("type", "text") @@ Rec("text", "Why?") }

ConcPayloads == { JDict(<<[k |-> "1", v |-> JStr("Yes")]>>) }

(* submit_response up to request.get_json() *)
submit_response_read(caller, survey_id, data) ==
    IF survey_id \notin DOMAIN surveys
    THEN /\ last' = Reply("submit_response", caller, survey_id, 404, Error("Not Found"))
         /\ UNCHANGED <<surveys, questions, responses, commits, pending>>
    ELSE IF not_active(surveys[survey_id])
    THEN /\ last' = Reply("submit_response", caller, survey_id, 400, Error("Survey is not active"))
         /\ UNCHANGED <<surveys, questions, responses, commits, pending>>
    ELSE /\ Cardinality(pending) < MaxPending
         /\ pending' = pending \cup {Request("submit_response", caller, survey_id, NoData, data)}
         /\ UNCHANGED <<surveys, questions, responses, commits, last>>

(* submit_response from Response(...) to the reply *)
submit_response_commit(req) ==
    LET id == NextId(responses)
        new_response == [survey_id |-> req.id,
                         user_id |-> session_get_user_id(req.caller),
                         response_data |-> json_dumps(req.answers)]
    IN /\ req.op = "submit_response"
       /\ id <= MaxResponses
       /\ commits < MaxConcCommits
       /\ responses' = Insert(responses, id, new_response)
       /\ last' = Reply("submit_response", req.caller, req.id, 201, [id |-> id])
       /\ commits' = commits + 1
       /\ pending' = pending \ {req}
       /\ UNCHANGED <<surveys, questions>>

(* create_question up to request.get_json() *)
create_question_read(caller, survey_id, data) ==
    IF not_logged_in(caller)
    THEN /\ last' = Reply("create_question", caller, survey_id, 401, Error("Unauthorized"))
         /\ UNCHANGED <<surveys, questions, responses, commits, pending>>
    ELSE IF survey_id \notin DOMAIN surveys
    THEN /\ last' = Reply("create_question", caller, survey_id, 404, Error("Not Found"))
         /\ UNCHANGED <<surveys, questions, responses, commits, pending>>
    ELSE IF not_owner(surveys[survey_id], caller)
    THEN /\ last' = Reply("create_question", caller, survey_id, 403, Error("Forbidden"))
         /\ UNCHANGED <<surveys, questions, responses, commits, pending>>
    ELSE /\ Cardinality(pending) < MaxPending
         /\ pending' = pending \cup {Request("create_question", caller, survey_id, data, JNull)}
         /\ UNCHANGED <<surveys, questions, responses, commits, last>>

(* create_question from Question(...) to the reply *)
create_question_commit(req) ==
    LET data == req.fields
        id == NextId(questions)
        new_question == [survey_id |-> req.id,
                         type |-> data["type"],
                         text |-> data["text"],
                         description |-> get(data, "description", ""),
                         required |-> get(data, "required", FALSE),
                         options |-> json_dumps(get(data, "options", JList(<<>>))),
                         order |-> get(data, "order", 0)]
    IN /\ req.op = "create_question"
       /\ id <= MaxQuestions
       /\ commits < MaxConcCommits
       /\ questions' = Insert(questions, id, new_question)
       /\ last' = Reply("create_question", req.caller, req.id, 201,
                        question_body(id, new_question))
       /\ commits' = commits + 1
       /\ pending' = pending \ {req}
       /\ UNCHANGED <<surveys, responses>>

CommitConc ==
    /\ commits' = IF Committed THEN commits + 1 ELSE commits
    /\ commits' <= MaxConcCommits
    /\ UNCHANGED pending

NextConc ==
    \/ \E caller \in ConcCallers, data \in CreateSurveyData : create_survey(caller, data) /\ CommitConc
    \/ \E caller \in ConcCallers, survey_id \in PathIds(surveys), data \in ConcUpdateSurveyData :
          update_survey(caller, survey_id, data) /\ CommitConc
    \/ \E caller \in ConcCallers, survey_id \in PathIds(surveys) :
          delete_survey(caller, survey_id) /\ CommitConc
    \/ \E caller \in ConcCallers, survey_id \in PathIds(surveys), data \in ConcCreateQuestionData :
          create_question_read(caller, survey_id, data)
    \/ \E req \in pending : create_question_commit(req)
    \/ \E caller \in ConcCallers, survey_id \in PathIds(surveys), data \in ConcPayloads :
          submit_response_read(caller, survey_id, data)
    \/ \E req \in pending : submit_response_commit(req)

SpecConc == Init /\ [][NextConc]_vars

(***************************************************************************)
(* The error kinds of the replies.                                         *)
(***************************************************************************)
Unauthenticated(reply) == reply.http = 401

Forbidden(reply) == reply.http = 403

NotFound(reply) == reply.http = 404

InvalidState(reply) == reply.http = 400 /\ reply.body = Error("Survey is not active")

ValidationError(reply) == reply.http \in {400, 422} /\ ~InvalidState(reply)

SurveyOps == {"get_survey", "update_survey", "delete_survey", "create_question"}

OwnerOnlyOps ==
    SurveyOps \cup {"get_surveys", "create_survey", "update_question", "delete_question"}

QuestionsOf(qs, survey_id) == {q \in DOMAIN qs : qs[q].survey_id = survey_id}

ResponsesOf(rs, survey_id) == {r \in DOMAIN rs : rs[r].survey_id = survey_id}

(***************************************************************************)
(* C1: a submission to an existing survey whose status is not 'active'     *)
(* fails with InvalidState and creates no Response, whatever the payload   *)
(* and whoever the caller; so does the submission that follows the owner   *)
(* closing an active survey.                                               *)
(***************************************************************************)
C1_InactiveRejected ==
    [][(/\ last'.op = "submit_response"
        /\ last'.id \in DOMAIN surveys
        /\ surveys[last'.id].status # "active")
       => (InvalidState(last') /\ responses' = responses)]_vars

(* A submission was refused on a survey the owner has closed. *)
C1_Witness ==
    /\ last.op = "submit_response"
    /\ InvalidState(last)
    /\ surveys[last.id].status = "closed"

(***************************************************************************)
(* C2: for an authenticated caller and an existing survey, get_survey,     *)
(* update_survey, delete_survey and create_question answer Forbidden       *)
(* exactly when the caller is not the survey's owner, and then leave       *)
(* surveys, questions and responses unchanged.                             *)
(***************************************************************************)
C2_OwnerOnly ==
    [][(/\ last'.op \in SurveyOps
        /\ last'.caller \in UserIds
        /\ last'.id \in DOMAIN surveys)
       => /\ Forbidden(last') <=> (last'.caller # surveys[last'.id].user_id)
          /\ last'.caller # surveys[last'.id].user_id
             => UNCHANGED <<surveys, questions, responses>>]_vars

(* A user other than the owner was refused an update of an existing survey. *)
C2_Witness ==
    /\ last.op = "update_survey"
    /\ Forbidden(last)
    /\ last.id \in DOMAIN surveys
    /\ last.caller \in UserIds \ {surveys[last.id].user_id}

(***************************************************************************)
(* C3: an owner-only route answers Unauthenticated exactly when the        *)
(* request carries no identity, and an Unauthenticated reply is never      *)
(* Forbidden: a missing identity never yields Forbidden and a wrong        *)
(* identity never yields Unauthenticated.                                  *)
(***************************************************************************)
C3_UnauthenticatedDistinct ==
    last.op \in OwnerOnlyOps
    => /\ Unauthenticated(last) <=> (last.caller = None)
       /\ last.caller = None => ~Forbidden(last)
       /\ Forbidden(last) => last.caller \in UserIds

(* A question update without an identity was answered Unauthenticated. *)
C3_Witness ==
    /\ last.op = "update_question"
    /\ last.caller = None
    /\ Unauthenticated(last)
    /\ last.id \in DOMAIN questions

(***************************************************************************)
(* C4: a submission to an existing active survey succeeds for the owner,   *)
(* for any other user and for an anonymous caller; the stored Response     *)
(* carries the caller's identity, or none when the caller has none.        *)
(***************************************************************************)
C4_AnyoneMaySubmit ==
    [][(/\ last'.op = "submit_response"
        /\ last'.id \in DOMAIN surveys
        /\ surveys[last'.id].status = "active")
       => /\ last'.http = 201
          /\ last'.body.id \in DOMAIN responses' \ DOMAIN responses
          /\ responses'[last'.body.id].survey_id = last'.id
          /\ responses'[last'.body.id].user_id = last'.caller]_vars

(* A user who is not the owner submitted and is stored as the respondent. *)
C4_Witness ==
    /\ last.op = "submit_response"
    /\ last.http = 201
    /\ last.caller \in UserIds \ {surveys[last.id].user_id}
    /\ responses[last.body.id].user_id = last.caller

(***************************************************************************)
(* C5: delete_survey by the owner of an existing survey removes the survey *)
(* with all its Questions and all its Responses, however many it holds:    *)
(* afterwards the survey is gone and no Question or Response references    *)
(* it.                                                                     *)
(***************************************************************************)
C5_DeleteCascades ==
    [][(/\ last'.op = "delete_survey"
        /\ last'.id \in DOMAIN surveys
        /\ surveys[last'.id].user_id = last'.caller)
       => /\ last'.id \notin DOMAIN surveys'
          /\ QuestionsOf(questions', last'.id) = {}
          /\ ResponsesOf(responses', last'.id) = {}]_vars

(***************************************************************************)
(* C6: a submission to an active survey stores a Response whose decoded    *)
(* answers have the keys and the values of the submitted payload, the      *)
(* returned id is the id of that new Response, and the survey has exactly  *)
(* one Response more than before.                                          *)
(***************************************************************************)
Keys(dict) == {dict.d[i].k : i \in 1..Len(dict.d)}

Value(dict, key) == dict.d[CHOOSE i \in 1..Len(dict.d) : dict.d[i].k = key].v

SameAnswers(a, b) ==
    /\ a.t = "dict"
    /\ b.t = "dict"
    /\ Len(a.d) = Cardinality(Keys(a))
    /\ Keys(a) = Keys(b)
    /\ \A key \in Keys(a) : Value(a, key) = Value(b, key)

C6_AnswersRoundTrip ==
    [][(/\ last'.op = "submit_response"
        /\ last'.id \in DOMAIN surveys
        /\ surveys[last'.id].status = "active")
       => /\ last'.body.id \in DOMAIN responses' \ DOMAIN responses
          /\ \A data \in Payloads :
                submit_response(last'.caller, last'.id, data)
                => SameAnswers(json_loads(responses'[last'.body.id].response_data), data)
          /\ \E data \in Payloads : submit_response(last'.caller, last'.id, data)
          /\ Cardinality(ResponsesOf(responses', last'.id))
                = Cardinality(ResponsesOf(responses, last'.id)) + 1]_vars

(* A payload of two answers, one of them a list, was stored and reads back. *)
C6_Witness ==
    /\ last.op = "submit_response"
    /\ last.http = 201
    /\ Keys(json_loads(responses[last.body.id].response_data)) = {"1", "2"}
    /\ Value(json_loads(responses[last.body.id].response_data), "2")
          = JList(<<JStr("Yes"), JStr("No")>>)

(***************************************************************************)
(* C7: create_question by the owner with a choice-like type and an empty   *)
(* or omitted options list fails with ValidationError and leaves the       *)
(* questions unchanged.                                                    *)
(***************************************************************************)
ChoiceTypes == {"single_choice", "multi_choice", "dropdown"}

ChoiceWithoutOptions(data) ==
    /\ "type" \in DOMAIN data
    /\ data["type"] \in ChoiceTypes
    /\ get(data, "options", JList(<<>>)) = JList(<<>>)

C7_EmptyOptionsRejected ==
    [][(/\ last'.op = "create_question"
        /\ last'.id \in DOMAIN surveys
        /\ surveys[last'.id].user_id = last'.caller
        /\ \E data \in CreateQuestionData :
              ChoiceWithoutOptions(data) /\ create_question(last'.caller, last'.id, data))
       => (ValidationError(last') /\ questions' = questions)]_vars

(***************************************************************************)
(* C8: the status of every survey is one of draft, active, closed,         *)
(* archived.                                                               *)
(***************************************************************************)
C8_StatusValid == \A s \in DOMAIN surveys : surveys[s].status \in Statuses

(***************************************************************************)
(* C9: the questions get_survey returns are in ascending (order, id)       *)
(* order.                                                                  *)
(***************************************************************************)
OrderedByOrderThenId(qs) ==
    \A i, j \in 1..Len(qs) :
        i < j => \/ qs[i].order < qs[j].order
                 \/ (qs[i].order = qs[j].order /\ qs[i].id < qs[j].id)

C9_QuestionsSorted ==
    (last.op = "get_survey" /\ last.http = 200)
    => OrderedByOrderThenId(last.body.questions)

(***************************************************************************)
(* C10: update_survey by the owner supplying one of the four statuses      *)
(* succeeds from every status and leaves the survey in exactly the         *)
(* supplied status; no transition between the four statuses is refused.    *)
(***************************************************************************)
C10_AnyTransition ==
    [][(/\ last'.op = "update_survey"
        /\ last'.id \in DOMAIN surveys
        /\ surveys[last'.id].user_id = last'.caller)
       => \A data \in UpdateSurveyData :
             (/\ "status" \in DOMAIN data
              /\ data["status"] \in Statuses
              /\ update_survey(last'.caller, last'.id, data))
             => /\ last'.http = 200
                /\ surveys'[last'.id].status = data["status"]
                /\ last'.body.status = data["status"]]_vars

(* An owner's update left a survey in the status it supplied, 'archived'. *)
C10_Witness ==
    /\ last.op = "update_survey"
    /\ last.http = 200
    /\ last.body.status = "archived"
    /\ surveys[last.id].status = "archived"
    /\ surveys[last.id].user_id = last.caller

(***************************************************************************)
(* C11: the owner of a survey never changes.  A survey is created with the *)
(* caller of create_survey as its owner, and no later step gives an        *)
(* existing survey another owner, an update_survey whose payload carries   *)
(* an owner field included.                                                *)
(***************************************************************************)
C11_OwnerNeverChanges ==
    [][/\ \A s \in DOMAIN surveys \cap DOMAIN surveys' :
             surveys'[s].user_id = surveys[s].user_id
       /\ \A s \in DOMAIN surveys' \ DOMAIN surveys :
             /\ last'.op = "create_survey"
             /\ surveys'[s].user_id = last'.caller]_vars

(* User 1 applied the update whose payload names user 2 as the owner (it   *)
(* is the payload that sets the title 'Q2 Feedback'); user 1 still owns    *)
(* the survey.                                                             *)
C11_Witness ==
    /\ last.op = "update_survey"
    /\ last.http = 200
    /\ last.caller = 1
    /\ \E data \in UpdateSurveyData :
          /\ "user_id" \in DOMAIN data
          /\ data["user_id"] # last.caller
          /\ last.body.title = data["title"]
    /\ surveys[last.id].user_id = 1

(***************************************************************************)
(* C12: the listing returned to a caller holds exactly the surveys that    *)
(* caller owns, each once; a survey of another user never appears.         *)
(***************************************************************************)
C12_ListingIsOwn ==
    (last.op = "get_surveys" /\ last.http = 200)
    => /\ {last.body[i].id : i \in 1..Len(last.body)}
             = {s \in DOMAIN surveys : surveys[s].user_id = last.caller}
       /\ \A i, j \in 1..Len(last.body) : last.body[i].id = last.body[j].id => i = j

(* Two users own a survey each and one of them lists: one entry comes back. *)
C12_Witness ==
    /\ last.op = "get_surveys"
    /\ last.http = 200
    /\ Len(last.body) = 1
    /\ \E s \in DOMAIN surveys : surveys[s].user_id \notin {last.caller, None}

(***************************************************************************)
(* C13: update_question and delete_question on an existing question, by a  *)
(* logged-in caller, succeed exactly when the caller owns the survey the   *)
(* question belongs to; for any other user the reply is Forbidden and the  *)
(* questions stay as they were.                                            *)
(***************************************************************************)
C13_QuestionOwnerOnly ==
    [][(/\ last'.op \in {"update_question", "delete_question"}
        /\ last'.caller \in UserIds
        /\ last'.id \in DOMAIN questions)
       => LET owner == surveys[questions[last'.id].survey_id].user_id
          IN /\ last'.http \in {200, 204} <=> last'.caller = owner
             /\ last'.caller # owner => (Forbidden(last') /\ questions' = questions)
             /\ questions' # questions => last'.caller = owner]_vars

(* A logged-in user who does not own the survey was refused on one of its  *)
(* questions.                                                              *)
C13_Witness ==
    /\ last.op \in {"update_question", "delete_question"}
    /\ Forbidden(last)
    /\ last.id \in DOMAIN questions
    /\ last.caller \in UserIds
    /\ surveys[questions[last.id].survey_id].user_id # last.caller

(***************************************************************************)
(* C15: 'archived' is terminal and read-only: once a survey is archived,   *)
(* no later step changes its status, title, description or questions.      *)
(***************************************************************************)
ArchivedView(svs, qs, s) ==
    [survey |-> IF s \in DOMAIN svs
                THEN {[status |-> svs[s].status, title |-> svs[s].title,
                       description |-> svs[s].description]}
                ELSE {},
     questions |-> {<<q, qs[q]>> : q \in QuestionsOf(qs, s)}]

C15_ArchivedReadOnly ==
    [][\A s \in DOMAIN surveys :
          surveys[s].status = "archived"
          => ArchivedView(surveys', questions', s) = ArchivedView(surveys, questions, s)]_vars

(***************************************************************************)
(* C16: responses are append-only.  update_survey, create_question,        *)
(* update_question and delete_question leave the responses exactly as they *)
(* were, also those whose answers are keyed by the question just edited or *)
(* deleted; no step of any route changes a Response that exists, and a     *)
(* Response goes away only with the survey it belongs to.                  *)
(***************************************************************************)
C16_ResponsesAppendOnly ==
    [][/\ last'.op \in {"update_survey", "create_question", "update_question",
                        "delete_question"}
          => responses' = responses
       /\ \A r \in DOMAIN responses \cap DOMAIN responses' : responses'[r] = responses[r]
       /\ \A r \in DOMAIN responses \ DOMAIN responses' :
             /\ last'.op = "delete_survey"
             /\ last'.id = responses[r].survey_id]_vars

(* The owner deleted question 1 while a Response held an answer keyed '1': *)
(* the Response still holds that answer.                                   *)
C16_Witness ==
    /\ last.op = "delete_question"
    /\ last.http = 204
    /\ last.id \notin DOMAIN questions
    /\ \E r \in DOMAIN responses :
          LET answers == json_loads(responses[r].response_data)
          IN /\ Keys(answers) = {"1"}
             /\ last.id = 1
             /\ Value(answers, "1") = JStr("Yes")

(***************************************************************************)

(* C17: a step whose reply is a business error (Unauthenticated,           *)
(* Forbidden, NotFound, InvalidState, ValidationError) leaves the surveys, *)
(* the questions and the responses exactly as they were.                   *)
(***************************************************************************)
BusinessError(reply) ==
    \/ Unauthenticated(reply)
    \/ Forbidden(reply)
    \/ NotFound(reply)
    \/ InvalidState(reply)
    \/ ValidationError(reply)

C17_ErrorsWriteNothing ==
    [][BusinessError(last') => UNCHANGED <<surveys, questions, responses>>]_vars

(* A submission to a survey that is not active, and that has a question,   *)
(* was answered with InvalidState; there is no Response.                   *)
C17_Witness ==
    /\ InvalidState(last)
    /\ last.op = "submit_response"
    /\ QuestionsOf(questions, last.id) # {}
    /\ responses = NoRows

(***************************************************************************)
(* C18, the merge alone: each of type, text, description, required,        *)
(* options, order the payload of update_question supplies takes the        *)
(* supplied value, each it omits keeps its value, and the question keeps   *)
(* its id and survey.  C18 whole, below, adds the second validation.       *)
(***************************************************************************)
stored_options(question) ==
    IF question.options # <<>> THEN json_loads(question.options) ELSE JList(<<>>)

Merged(question, data) ==
    [survey_id |-> question.survey_id,
     type |-> get(data, "type", question.type),
     text |-> get(data, "text", question.text),
     description |-> get(data, "description", question.description),
     required |-> get(data, "required", question.required),
     options |-> get(data, "options", stored_options(question)),
     order |-> get(data, "order", question.order)]

IsMerged(question, merged) ==
    /\ [merged EXCEPT !.options = 0] = [question EXCEPT !.options = 0]
    /\ stored_options(question) = merged.options

C18_Merges ==
    [][(/\ last'.op = "update_question"
        /\ last'.id \in DOMAIN questions
        /\ surveys[questions[last'.id].survey_id].user_id = last'.caller)
       => \A data \in UpdateQuestionData :
             update_question(last'.caller, last'.id, data)
             => /\ last'.http = 200
                /\ DOMAIN questions' = DOMAIN questions
                /\ IsMerged(questions'[last'.id], Merged(questions[last'.id], data))
                /\ \A q \in DOMAIN questions \ {last'.id} : questions'[q] = questions[q]]_vars

(***************************************************************************)
(* C18: update_question merges.  Each of type, text, description,          *)
(* required, options, order the payload supplies takes the supplied value, *)
(* each it omits keeps its value, the question keeps its id and survey;    *)
(* and the merged question is validated again, so that a choice-like type  *)
(* left with no options is rejected with ValidationError and nothing is    *)
(* written.                                                                *)
(***************************************************************************)
C18_MergesAndRevalidates ==
    [][(/\ last'.op = "update_question"
        /\ last'.id \in DOMAIN questions
        /\ surveys[questions[last'.id].survey_id].user_id = last'.caller)
       => \A data \in UpdateQuestionData :
             update_question(last'.caller, last'.id, data)
             => LET merged == Merged(questions[last'.id], data)
                IN IF merged.type \in ChoiceTypes /\ merged.options = JList(<<>>)
                   THEN ValidationError(last') /\ questions' = questions
                   ELSE /\ last'.http = 200
                        /\ DOMAIN questions' = DOMAIN questions
                        /\ IsMerged(questions'[last'.id], merged)]_vars

(***************************************************************************)
(* C14: with submit_response and update_survey running concurrently on one *)
(* survey, in any interleaving, every Response is committed while the      *)
(* status of its survey is 'active'; none is committed after a change of   *)
(* the status to closed, draft or archived has been committed.             *)
(***************************************************************************)
C14_CommittedWhileActive ==
    [][\A r \in DOMAIN responses' \ DOMAIN responses :
          responses'[r].survey_id \in DOMAIN surveys
          => surveys[responses'[r].survey_id].status = "active"]_vars

(***************************************************************************)
(* C19: in every reachable state, those reached by interleaving            *)
(* delete_survey with a concurrent create_question or submit_response on   *)
(* the same survey included, every Question and every Response refers to a *)
(* survey that exists.                                                     *)
(***************************************************************************)
C19_NoDanglingReference ==
    /\ \A q \in DOMAIN questions : questions[q].survey_id \in DOMAIN surveys
    /\ \A r \in DOMAIN responses : responses[r].survey_id \in DOMAIN surveys

(***************************************************************************)
(* C20: create_survey by a logged-in caller makes a survey in status       *)
(* 'draft', owned by the caller, with no questions and no responses; a     *)
(* survey becomes 'active' only by an update_survey of its owner, and a    *)
(* Response is added only to a survey that is 'active': so a survey has a  *)
(* Response only after its owner has set it 'active'.                      *)
(***************************************************************************)
C20_DraftUntilActivated ==
    [][/\ (last'.op = "create_survey" /\ last'.caller \in UserIds /\ last'.http = 201)
          => /\ DOMAIN surveys' = DOMAIN surveys \cup {last'.body.id}
             /\ last'.body.id \notin DOMAIN surveys
             /\ surveys'[last'.body.id].status = "draft"
             /\ surveys'[last'.body.id].user_id = last'.caller
             /\ QuestionsOf(questions', last'.body.id) = {}
             /\ ResponsesOf(responses', last'.body.id) = {}
       /\ \A s \in DOMAIN surveys' \ DOMAIN surveys :
             last'.op = "create_survey" /\ last'.body.id = s
       /\ \A s \in DOMAIN surveys' :
             (/\ surveys'[s].status = "active"
              /\ (s \in DOMAIN surveys => surveys[s].status # "active"))
             => /\ last'.op = "update_survey"
                /\ last'.id = s
                /\ s \in DOMAIN surveys
                /\ last'.caller = surveys[s].user_id
       /\ \A r \in DOMAIN responses' \ DOMAIN responses :
             /\ responses'[r].survey_id \in DOMAIN surveys
             /\ surveys[responses'[r].survey_id].status = "active"]_vars

(* A survey created as a draft was set 'active' by its owner and then got  *)
(* its first Response, from a caller who is not the owner.                 *)
C20_Witness ==
    /\ last.op = "submit_response"
    /\ last.http = 201
    /\ last.caller # surveys[last.id].user_id
    /\ surveys[last.id].status = "active"
    /\ ResponsesOf(responses, last.id) = {last.body.id}

====
